---- MODULE Spec2Model ----
(***************************************************************************)
(* Android Icon Resizer (src/devscripts/icon_resizer.py).                  *)
(*                                                                         *)
(* The module models AndroidIconResizer: the two pure helpers              *)
(* normalize_file_name and get_width_height, the directory creation and    *)
(* the resize method, which runs them in sequence over the six density     *)
(* buckets and the optional playstore variant.                             *)
(*                                                                         *)
(* get_width_height computes with Python floats (IEEE-754 binary64).  The  *)
(* model keeps that arithmetic: a float is a significand, held as a        *)
(* sequence of bits, and a binary exponent; division and multiplication    *)
(* round to 53 significant bits, ties to even, and int() truncates.        *)
(***************************************************************************)
EXTENDS Integers, Sequences, FiniteSets, TLC

(***************************************************************************)
(* Bounds of the model.                                                    *)
(***************************************************************************)
\* sides of the images get_width_height is applied to (SpecGWH)
MaxSide == 13
\* target sizes get_width_height is applied to (SpecGWH)
MaxTarget == 16
\* length of the file names normalize_file_name is applied to (SpecNorm)
MaxLen == 6
\* sides of the small source images resize is run on (Spec)
MaxDim == 4
\* largest desired_size_mdpi a caller passes to resize (Spec)
MaxDesired == 1
\* number of times resize is run on the same input and output folder (Spec)
MaxRuns == 2

(***************************************************************************)
(* Python float: IEEE-754 binary64.                                        *)
(* A float is [sig, exp]: sig is the significand, most significant bit     *)
(* first, without leading or trailing zeros (<<>> is zero), and the value  *)
(* is ToNat(sig) * 2^exp.                                                      *)
(***************************************************************************)
\* significant bits of a binary64 significand
Precision == 53

RECURSIVE Bits(_)
\* the binary digits of n >= 0, most significant first
Bits(n) == IF n = 0 THEN <<>> ELSE Append(Bits(n \div 2), n % 2)

RECURSIVE ToNat(_)
\* the number a sequence of binary digits stands for
ToNat(s) == IF s = <<>> THEN 0
            ELSE 2 * ToNat(SubSeq(s, 1, Len(s) - 1)) + s[Len(s)]

RECURSIVE Pow2(_)
Pow2(n) == IF n = 0 THEN 1 ELSE 2 * Pow2(n - 1)

Zeros(n) == [i \in 1..n |-> 0]

\* 0.0
FZero == [sig |-> <<>>, exp |-> 0]

\* the float [s, e] without the trailing zeros of its significand
StripLow(s, e) ==
    IF \A i \in 1..Len(s) : s[i] = 0 THEN FZero
    ELSE LET last == CHOOSE i \in 1..Len(s) :
                        s[i] = 1 /\ \A j \in (i + 1)..Len(s) : s[j] = 0
         IN  [sig |-> SubSeq(s, 1, last), exp |-> e + (Len(s) - last)]

\* the binary digits of ToNat(s) + 1
Increment(s) ==
    IF \A i \in 1..Len(s) : s[i] = 1 THEN <<1>> \o Zeros(Len(s))
    ELSE LET z == CHOOSE i \in 1..Len(s) :
                     s[i] = 0 /\ \A j \in (i + 1)..Len(s) : s[j] = 1
         IN  SubSeq(s, 1, z - 1) \o <<1>> \o Zeros(Len(s) - z)

\* round-half-even: kept is the significand kept, guard the first bit
\* dropped, sticky whether anything below the guard bit is left
RoundHalfEven(kept, guard, sticky, e) ==
    IF guard = 1 /\ (sticky \/ kept[Len(kept)] = 1)
    THEN StripLow(Increment(kept), e)
    ELSE StripLow(kept, e)

\* the exact value ToNat(s) * 2^e, s[1] = 1, rounded to a float
Round(s, e) ==
    IF Len(s) <= Precision THEN StripLow(s, e)
    ELSE RoundHalfEven(SubSeq(s, 1, Precision), s[Precision + 1],
                       \E i \in (Precision + 2)..Len(s) : s[i] = 1,
                       e + (Len(s) - Precision))

\* float(n) for an int n >= 0 (exact: an int of the model is below 2^31)
FromInt(n) == StripLow(Bits(n), 0)

\* the integer an integral float holds
IntValue(a) == ToNat(a.sig) * Pow2(a.exp)

RECURSIVE DivFrac(_, _, _)
\* long division: the next k binary digits of r / w, for 0 <= r < w, and
\* the remainder left after them
DivFrac(r, w, k) ==
    IF k = 0 THEN [bits |-> <<>>, rem |-> r]
    ELSE IF k = 1
    THEN LET bit == IF 2 * r >= w THEN 1 ELSE 0
         IN  [bits |-> <<bit>>, rem |-> 2 * r - bit * w]
    ELSE LET first == DivFrac(r, w, k \div 2)
             second == DivFrac(first.rem, w, k - k \div 2)
         IN  [bits |-> first.bits \o second.bits, rem |-> second.rem]

RECURSIVE LeadingZeros(_, _)
\* the zeros the binary fraction r / w starts with, for 0 < r < w
LeadingZeros(r, w) == IF 2 * r >= w THEN 0 ELSE 1 + LeadingZeros(2 * r, w)

\* a / b for floats holding integers, b # 0: the quotient of the two
\* integers to Precision + 1 digits, then rounded
FDiv(a, b) ==
    LET t == IntValue(a)
        w == IntValue(b)
        whole == Bits(t \div w)
        skip == IF whole = <<>> THEN LeadingZeros(t, w) ELSE 0
        k == Precision + 1 - Len(whole) + skip
        frac == DivFrac(t % w, w, k)
        digits == whole \o SubSeq(frac.bits, skip + 1, k)
    IN  IF t = 0 THEN FZero
        ELSE RoundHalfEven(SubSeq(digits, 1, Precision), digits[Precision + 1],
                           frac.rem # 0, 1 - k)

RECURSIVE MulChunk(_, _, _)
\* the Len(s) low binary digits of ToNat(s) * n + carry, and what is carried
\* out of them.  The test of carry comes first so that the carry out of the
\* lower digits is evaluated before the higher digits are entered.
MulChunk(s, n, carry) ==
    IF carry >= 0 /\ Len(s) > 1
    THEN LET half == Len(s) \div 2
             low == MulChunk(SubSeq(s, half + 1, Len(s)), n, carry)
             high == MulChunk(SubSeq(s, 1, half), n, low.carry)
         IN  [bits |-> high.bits \o low.bits, carry |-> high.carry]
    ELSE IF Len(s) = 1
    THEN LET v == s[1] * n + carry
         IN  [bits |-> <<v % 2>>, carry |-> v \div 2]
    ELSE [bits |-> <<>>, carry |-> carry]

\* the binary digits of ToNat(s) * n
MulBits(s, n) ==
    LET product == MulChunk(s, n, 0)
    IN  Bits(product.carry) \o product.bits

\* a * b: the exact product, rounded.  The operand with the shorter
\* significand is the multiplier.
FMul(a, b) ==
    LET small == IF Len(a.sig) <= Len(b.sig) THEN a ELSE b
        large == IF Len(a.sig) <= Len(b.sig) THEN b ELSE a
    IN  IF small.sig = <<>> THEN FZero
        ELSE Round(MulBits(large.sig, ToNat(small.sig)), a.exp + b.exp)

\* int(a) for a float a >= 0: truncation toward zero
FInt(a) ==
    IF a.exp >= 0 THEN IntValue(a)
    ELSE IF -a.exp >= Len(a.sig) THEN 0
    ELSE ToNat(SubSeq(a.sig, 1, Len(a.sig) + a.exp))

(***************************************************************************)
(* Module constants.                                                       *)
(***************************************************************************)
RESOLUTION_TYPES == <<"ldpi", "mdpi", "hdpi", "xhdpi", "xxhdpi", "xxxhdpi">>

Buckets == {RESOLUTION_TYPES[i] : i \in 1..Len(RESOLUTION_TYPES)}

RESOLUTION_SIZES ==
    [b \in Buckets |->
        CASE b = "ldpi" -> 36 [] b = "mdpi" -> 48 [] b = "hdpi" -> 72
          [] b = "xhdpi" -> 96 [] b = "xxhdpi" -> 144 [] b = "xxxhdpi" -> 192]

\* the float literals .75, 1.0, 1.5, 2.0, 3.0, 4.0
RELATIVE_SIZES ==
    [b \in Buckets |->
        CASE b = "ldpi" -> [sig |-> <<1, 1>>, exp |-> -2]
          [] b = "mdpi" -> [sig |-> <<1>>, exp |-> 0]
          [] b = "hdpi" -> [sig |-> <<1, 1>>, exp |-> -1]
          [] b = "xhdpi" -> [sig |-> <<1>>, exp |-> 1]
          [] b = "xxhdpi" -> [sig |-> <<1, 1>>, exp |-> 0]
          [] b = "xxxhdpi" -> [sig |-> <<1>>, exp |-> 2]]

PLAYSTORE_SIZE == 512

\* DRAWABLE_FOLDER_PATH % resolution_type, as path components
DRAWABLE_FOLDER_PATH(resolution_type) == <<"res", "drawable-" \o resolution_type>>

PLAYSTORE_FOLDER_PATH == <<"res", "playstore">>

(***************************************************************************)
(* get_width_height                                                        *)
(***************************************************************************)
get_width_height(width, height, target_size) ==
    IF width > height
    THEN LET wpercent == FDiv(FromInt(target_size), FromInt(width))
         IN  <<target_size, FInt(FMul(FromInt(height), wpercent))>>
    ELSE LET wpercent == FDiv(FromInt(target_size), FromInt(height))
         IN  <<FInt(FMul(FromInt(width), wpercent)), target_size>>

(***************************************************************************)
(* normalize_file_name.  A string is a sequence of one-character strings.  *)
(***************************************************************************)
Digits == {"0", "1", "2", "3", "4", "5", "6", "7", "8", "9"}

\* where a match of "@[0-9]+x" that starts at s[i] ends; 0 when none starts
\* there.  [0-9]+ takes every digit that follows: giving one back never
\* helps, for the next character would then be a digit, not "x".
MatchEnd(s, i) ==
    IF s[i] # "@" THEN 0
    ELSE LET stop == CHOOSE j \in (i + 1)..(Len(s) + 1) :
                        /\ j = Len(s) + 1 \/ s[j] \notin Digits
                        /\ \A m \in (i + 1)..(j - 1) : s[m] \in Digits
         IN  IF stop > i + 1 /\ stop <= Len(s) /\ s[stop] = "x" THEN stop ELSE 0

RECURSIVE re_sub_from(_, _)
\* re.sub("@[0-9]+x", "", s) from position i on: the scan goes left to right,
\* drops each match it meets and resumes right after it
re_sub_from(s, i) ==
    IF i > Len(s) THEN <<>>
    ELSE IF MatchEnd(s, i) # 0 THEN re_sub_from(s, MatchEnd(s, i) + 1)
    ELSE <<s[i]>> \o re_sub_from(s, i + 1)

\* re.sub with count=1: only the leftmost match is dropped
re_sub_once(s) ==
    LET starts == {i \in 1..Len(s) : MatchEnd(s, i) # 0}
        first == CHOOSE i \in starts : \A j \in starts : i <= j
    IN  IF starts = {} THEN s
        ELSE SubSeq(s, 1, first - 1) \o SubSeq(s, MatchEnd(s, first) + 1, Len(s))

re_sub(s) == re_sub_from(s, 1)

\* s.replace(old, new) for one-character old and new
replace(s, old, new) == [i \in 1..Len(s) |-> IF s[i] = old THEN new ELSE s[i]]

normalize_file_name(file_name) == replace(re_sub(file_name), "-", "_")

\* os.path.basename: what follows the last "/"
basename(file_path) ==
    LET slashes == {i \in 1..Len(file_path) : file_path[i] = "/"}
        last == IF slashes = {} THEN 0
                ELSE CHOOSE i \in slashes : \A j \in slashes : j <= i
    IN  SubSeq(file_path, last + 1, Len(file_path))

(***************************************************************************)
(* State.                                                                  *)
(***************************************************************************)
VARIABLES
    pc,                 \* where the call stands
    call,               \* resize's arguments: file_path, desired_size_mdpi, with_playstore
    input_file,         \* the file at file_path: its image size, or <<>> when it is no image
    blocked,            \* directories the file system refuses to create
    rejects_empty,      \* whether the imaging library refuses a size with a side below 1
    order,              \* the order in which the dict RESOLUTION_SIZES is iterated
    dirs,               \* the directories under output_folder
    files,              \* the files under output_folder: [dir, name, size]
    image_size,         \* resize's width, height (<<>> before the image is open)
    desired_size_mdpi,  \* resize's variable of that name
    todo,               \* the resolution types the loop has still to do
    raised,             \* the exception that left resize, or "none"
    makedirs_calls,     \* this run's os.makedirs calls: [path, outcome]
    resample_calls,     \* this run's image.resize calls: [kind, source, target_size, size]
    save_calls,         \* this run's save calls: the directories written to
    history,            \* the finished runs: [raised, files, makedirs_calls]
    arg,                \* the argument of the helper under test
    ret                 \* what the helper returned

vars == <<pc, call, input_file, blocked, rejects_empty, order, dirs, files,
          image_size, desired_size_mdpi, todo, raised, makedirs_calls,
          resample_calls, save_calls, history, arg, ret>>

\* the value argparse leaves in args.size without -s; Python 2 orders None
\* below every int
None == -1

\* two file paths, as one-character strings: one plain, one with a directory,
\* a density suffix and a hyphen
SmallPath == <<"a", "-", "b">>
SuffixPath == <<"d", "/", "i", "@", "2", "x", "-", "t">>

\* the input files resize is run on
Inputs ==
    {[file_path |-> SmallPath, image |-> <<w, h>>] : w \in 1..MaxDim, h \in 1..MaxDim}
    \cup {[file_path |-> SuffixPath, image |-> <<100, 200>>],
          [file_path |-> SuffixPath, image |-> <<>>]}

\* what the file system may refuse to create
BlockedChoices ==
    {{}, {<<"res">>}, {DRAWABLE_FOLDER_PATH("mdpi")}, {PLAYSTORE_FOLDER_PATH}}

\* iteration orders of the dict RESOLUTION_SIZES (Python 2 leaves it to the
\* hash table)
IterationOrders ==
    {RESOLUTION_TYPES,
     <<"xxxhdpi", "hdpi", "ldpi", "xxhdpi", "mdpi", "xhdpi">>}

(***************************************************************************)
(* Directory creation.                                                     *)
(***************************************************************************)
Prefixes(path) == {SubSeq(path, 1, n) : n \in 1..Len(path)}

\* os.makedirs(path, 0755) with the directories ds present: the leaf being
\* there is an OSError, and so is a component that cannot be created (the
\* components before it stay created)
makedirs(path, ds) ==
    IF path \in ds THEN [outcome |-> "EEXIST", dirs |-> ds]
    ELSE IF \E p \in Prefixes(path) : p \notin ds /\ p \in blocked
    THEN [outcome |-> "EACCES",
          dirs |-> ds \cup {p \in Prefixes(path) :
                               \A q \in Prefixes(p) : q \in ds \/ q \notin blocked}]
    ELSE [outcome |-> "created", dirs |-> ds \cup Prefixes(path)]

RECURSIVE create_directories_unguarded(_, _, _)
\* create_directories without its try: the first OSError leaves the method
create_directories_unguarded(i, ds, calls) ==
    IF i > Len(RESOLUTION_TYPES)
    THEN [dirs |-> ds, calls |-> calls, raised |-> "none"]
    ELSE LET path == DRAWABLE_FOLDER_PATH(RESOLUTION_TYPES[i])
             made == makedirs(path, ds)
             called == Append(calls, [path |-> path, outcome |-> made.outcome])
         IN  IF made.outcome # "created"
             THEN [dirs |-> made.dirs, calls |-> called, raised |-> "OSError"]
             ELSE create_directories_unguarded(i + 1, made.dirs, called)

RECURSIVE create_directories_try_outside(_, _, _)
\* create_directories with its try around the loop: the first OSError ends
\* the loop and is then passed over
create_directories_try_outside(i, ds, calls) ==
    IF i > Len(RESOLUTION_TYPES)
    THEN [dirs |-> ds, calls |-> calls, raised |-> "none"]
    ELSE LET path == DRAWABLE_FOLDER_PATH(RESOLUTION_TYPES[i])
             made == makedirs(path, ds)
             called == Append(calls, [path |-> path, outcome |-> made.outcome])
         IN  IF made.outcome # "created"
             THEN [dirs |-> made.dirs, calls |-> called, raised |-> "none"]
             ELSE create_directories_try_outside(i + 1, made.dirs, called)

RECURSIVE create_directories_from(_, _, _)
\* the loop of create_directories from RESOLUTION_TYPES[i] on; except OSError:
\* pass goes on to the next resolution type whatever the outcome
create_directories_from(i, ds, calls) ==
    IF i > Len(RESOLUTION_TYPES)
    THEN [dirs |-> ds, calls |-> calls, raised |-> "none"]
    ELSE LET path == DRAWABLE_FOLDER_PATH(RESOLUTION_TYPES[i])
             made == makedirs(path, ds)
         IN  create_directories_from(i + 1, made.dirs,
                 Append(calls, [path |-> path, outcome |-> made.outcome]))

create_directories(ds) == create_directories_from(1, ds, <<>>)

create_playstore_directory(ds) ==
    LET made == makedirs(PLAYSTORE_FOLDER_PATH, ds)
    IN  [dirs |-> made.dirs,
         calls |-> <<[path |-> PLAYSTORE_FOLDER_PATH, outcome |-> made.outcome]>>,
         raised |-> "none"]

(***************************************************************************)
(* resize                                                                  *)
(***************************************************************************)
\* a resize that keeps a positive size given by the caller
given_or_longest_side(width, height, given) ==
    IF given > 0 THEN given ELSE IF width > height THEN width ELSE height

\* line 152: desired_size_mdpi = width if width > height else height
longest_side(width, height, given) == IF width > height THEN width ELSE height

\* lines 157-159
target_size_for(resolution_type, desired) ==
    IF desired > 0
    THEN FInt(FMul(FromInt(desired), RELATIVE_SIZES[resolution_type]))
    ELSE RESOLUTION_SIZES[resolution_type]

\* a resize that goes on to the playstore variant whether asked to or not
after_loop_always_playstore(rest, with_playstore) ==
    IF rest # <<>> THEN "loop" ELSE "playstore"

\* lines 155 and 164: what follows an iteration of the loop
after_loop(rest, with_playstore) ==
    IF rest # <<>> THEN "loop"
    ELSE IF with_playstore THEN "playstore" ELSE "done"

\* image.save(path): the file at dir/name becomes one of this size
saved(fs, dir, name, size) ==
    {f \in fs : ~(f.dir = dir /\ f.name = name)}
    \cup {[dir |-> dir, name |-> name, size |-> size]}

\* image.resize(size) followed by save into dir, with the directories ds
\* present: the library may refuse an empty size, and save fails when dir is
\* missing
ResizeAndSave(kind, target_size, dir, ds, ended) ==
    LET size == get_width_height(image_size[1], image_size[2], target_size)
        name == normalize_file_name(basename(call.file_path))
    IN  /\ resample_calls' = Append(resample_calls,
               [kind |-> kind, source |-> image_size,
                target_size |-> target_size, size |-> size])
        /\ IF rejects_empty /\ (size[1] < 1 \/ size[2] < 1)
           THEN /\ raised' = "ValueError"
                /\ pc' = "failed"
                /\ UNCHANGED <<files, save_calls>>
           ELSE /\ save_calls' = Append(save_calls, dir)
                /\ IF dir \in ds
                   THEN /\ files' = saved(files, dir, name, size)
                        /\ pc' = ended
                        /\ UNCHANGED raised
                   ELSE /\ raised' = "IOError"
                        /\ pc' = "failed"
                        /\ UNCHANGED files

Environment == <<call, input_file, blocked, rejects_empty, order>>
Helper == <<arg, ret>>

\* line 148: self.create_directories()
CreateDirectories ==
    /\ pc = "start"
    /\ LET made == create_directories(dirs)
       IN  /\ dirs' = made.dirs
           /\ makedirs_calls' = made.calls
           /\ raised' = made.raised
           /\ pc' = IF made.raised = "none" THEN "open" ELSE "failed"
    /\ UNCHANGED <<Environment, Helper, files, image_size, desired_size_mdpi,
                   todo, resample_calls, save_calls, history>>

\* lines 149-154: Image.open, image.size and the override of desired_size_mdpi
OpenImage ==
    /\ pc = "open"
    /\ IF input_file = <<>>
       THEN /\ raised' = "IOError"
            /\ pc' = "failed"
            /\ UNCHANGED <<image_size, desired_size_mdpi, todo>>
       ELSE /\ image_size' = input_file
            /\ desired_size_mdpi' =
                   longest_side(input_file[1], input_file[2], desired_size_mdpi)
            /\ todo' = order
            /\ pc' = "loop"
            /\ UNCHANGED raised
    /\ UNCHANGED <<Environment, Helper, dirs, files, makedirs_calls,
                   resample_calls, save_calls, history>>

\* lines 155-163: one iteration of the loop over RESOLUTION_SIZES
ResizeBucket ==
    /\ pc = "loop"
    /\ todo # <<>>
    /\ LET resolution_type == Head(todo)
       IN  ResizeAndSave(resolution_type,
                         target_size_for(resolution_type, desired_size_mdpi),
                         DRAWABLE_FOLDER_PATH(resolution_type), dirs,
                         after_loop(Tail(todo), call.with_playstore))
    /\ todo' = Tail(todo)
    /\ UNCHANGED <<Environment, Helper, dirs, image_size, desired_size_mdpi,
                   makedirs_calls, history>>

\* lines 164-170: the playstore variant
ResizePlaystore ==
    /\ pc = "playstore"
    /\ LET made == create_playstore_directory(dirs)
       IN  /\ dirs' = made.dirs
           /\ makedirs_calls' = makedirs_calls \o made.calls
           /\ ResizeAndSave("playstore", PLAYSTORE_SIZE, PLAYSTORE_FOLDER_PATH,
                            made.dirs, "done")
    /\ UNCHANGED <<Environment, Helper, image_size, desired_size_mdpi, todo,
                   history>>

\* resize returns, or its exception reaches the caller
Return ==
    /\ pc \in {"done", "failed"}
    /\ history' = Append(history, [raised |-> raised, files |-> files,
                                   makedirs_calls |-> makedirs_calls,
                                   resample_calls |-> resample_calls])
    /\ pc' = "returned"
    /\ UNCHANGED <<Environment, Helper, dirs, files, image_size,
                   desired_size_mdpi, todo, raised, makedirs_calls,
                   resample_calls, save_calls>>

\* the tool is run again on the same input and output folder
Rerun ==
    /\ pc = "returned"
    /\ Len(history) < MaxRuns
    /\ pc' = "start"
    /\ image_size' = <<>>
    /\ desired_size_mdpi' = call.desired_size_mdpi
    /\ todo' = <<>>
    /\ raised' = "none"
    /\ makedirs_calls' = <<>>
    /\ resample_calls' = <<>>
    /\ save_calls' = <<>>
    /\ UNCHANGED <<Environment, Helper, dirs, files, history>>

Init ==
    /\ pc = "start"
    /\ \E in \in Inputs, size \in {None} \cup 0..MaxDesired, p \in BOOLEAN :
          /\ call = [file_path |-> in.file_path, desired_size_mdpi |-> size,
                     with_playstore |-> p]
          /\ input_file = in.image
          /\ desired_size_mdpi = size
    /\ blocked \in BlockedChoices
    /\ rejects_empty \in BOOLEAN
    /\ order \in IterationOrders
    /\ dirs = {}
    /\ files = {}
    /\ image_size = <<>>
    /\ todo = <<>>
    /\ raised = "none"
    /\ makedirs_calls = <<>>
    /\ resample_calls = <<>>
    /\ save_calls = <<>>
    /\ history = <<>>
    /\ arg = <<>>
    /\ ret = <<>>

Next ==
    \/ CreateDirectories
    \/ OpenImage
    \/ ResizeBucket
    \/ ResizePlaystore
    \/ Return
    \/ Rerun

Spec == Init /\ [][Next]_vars

(***************************************************************************)
(* The helpers on their own: get_width_height on every small image and     *)
(* target size, normalize_file_name on every short name.                   *)
(***************************************************************************)
Idle ==
    /\ call = [file_path |-> <<>>, desired_size_mdpi |-> None, with_playstore |-> FALSE]
    /\ input_file = <<>>
    /\ blocked = {}
    /\ rejects_empty = TRUE
    /\ order = RESOLUTION_TYPES
    /\ dirs = {}
    /\ files = {}
    /\ image_size = <<>>
    /\ desired_size_mdpi = None
    /\ todo = <<>>
    /\ raised = "none"
    /\ makedirs_calls = <<>>
    /\ resample_calls = <<>>
    /\ save_calls = <<>>
    /\ history = <<>>

Resizer == <<call, input_file, blocked, rejects_empty, order, dirs, files,
             image_size, desired_size_mdpi, todo, raised, makedirs_calls,
             resample_calls, save_calls, history>>

InitGWH ==
    /\ pc = "call"
    /\ arg \in (1..MaxSide) \X (1..MaxSide) \X (1..MaxTarget)
    /\ ret = <<>>
    /\ Idle

CallGWH ==
    /\ pc = "call"
    /\ ret' = get_width_height(arg[1], arg[2], arg[3])
    /\ pc' = "returned"
    /\ UNCHANGED <<arg, Resizer>>

SpecGWH == InitGWH /\ [][CallGWH]_vars

\* the characters of the file names tried
Alphabet == {"@", "2", "x", "-", "a"}

FileNames == UNION {[1..n -> Alphabet] : n \in 0..MaxLen}

InitNorm ==
    /\ pc = "call"
    /\ arg \in FileNames
    /\ ret = <<>>
    /\ Idle

\* normalize_file_name on the name, then on what it returned
CallNorm ==
    /\ pc = "call"
    /\ ret' = Append(ret, normalize_file_name(IF ret = <<>> THEN arg ELSE ret[Len(ret)]))
    /\ pc' = IF ret = <<>> THEN "call" ELSE "returned"
    /\ UNCHANGED <<arg, Resizer>>

SpecNorm == InitNorm /\ [][CallNorm]_vars

(***************************************************************************)
(* Properties.                                                             *)
(***************************************************************************)
Max(a, b) == IF a > b THEN a ELSE b
Min(a, b) == IF a < b THEN a ELSE b

\* C1: for all positive width, height and target_size, get_width_height
\* returns a pair whose larger component is target_size and whose other
\* component is the shorter side times target_size over the longer side,
\* truncated (so less than one pixel below the exact proportional value).
C1_ProportionalTruncated ==
    (pc = "returned" /\ Len(arg) = 3) =>
        LET long == Max(arg[1], arg[2])
            short == Min(arg[1], arg[2])
            other == IF arg[1] > arg[2] THEN ret[2] ELSE ret[1]
        IN  /\ Max(ret[1], ret[2]) = arg[3]
            /\ other = (short * arg[3]) \div long

\* C7: when width = height, get_width_height takes the height branch and
\* returns new_width = new_height = target_size.
C7_SquareStaysSquare ==
    (pc = "returned" /\ Len(arg) = 3 /\ arg[1] = arg[2]) =>
        (ret[1] = arg[3] /\ ret[2] = arg[3])

\* the relative scale of each bucket as an exact fraction
ExactScale ==
    [b \in Buckets |->
        CASE b = "ldpi" -> <<3, 4>> [] b = "mdpi" -> <<1, 1>> [] b = "hdpi" -> <<3, 2>>
          [] b = "xhdpi" -> <<2, 1>> [] b = "xxhdpi" -> <<3, 1>> [] b = "xxxhdpi" -> <<4, 1>>]

\* floor(longest side of the input image * relative scale of bucket b)
ExactTarget(b) ==
    (Max(input_file[1], input_file[2]) * ExactScale[b][1]) \div ExactScale[b][2]

C3_Idempotent == Len(ret) = 2 => ret[2] = ret[1]

\* the matches of "@[0-9]+x" in s, each as <<first, last>>
Matches(s) ==
    {m \in (1..Len(s)) \X (1..Len(s)) :
        /\ s[m[1]] = "@"
        /\ m[2] >= m[1] + 2
        /\ s[m[2]] = "x"
        /\ \A k \in (m[1] + 1)..(m[2] - 1) : s[k] \in Digits}

\* s without the characters at the positions in gone, every "-" made "_"
Without(s, gone) ==
    LET keep == (1..Len(s)) \ gone
        nth(p) == CHOOSE k \in keep : Cardinality({m \in keep : m <= k}) = p
    IN  [p \in 1..Cardinality(keep) |->
            IF s[nth(p)] = "-" THEN "_" ELSE s[nth(p)]]

\* C4 as stated: normalize_file_name removes exactly one substring matching
\* "@<digits>x" when there is one, and replaces every hyphen.
C4_RemovesExactlyOne ==
    Len(ret) >= 1 =>
        IF Matches(arg) = {} THEN ret[1] = Without(arg, {})
        ELSE \E m \in Matches(arg) : ret[1] = Without(arg, m[1]..m[2])

\* C4: normalize_file_name removes every substring matching "@<digits>x",
\* wherever it stands, replaces every hyphen with an underscore and keeps
\* all other characters in order.
C4_RemovesEveryMatch ==
    Len(ret) >= 1 =>
        ret[1] = Without(arg, UNION {m[1]..m[2] : m \in Matches(arg)})

\* "a@2x-a" has become "a_a"
C4_Witness ==
    /\ Len(ret) >= 1
    /\ arg = <<"a", "@", "2", "x", "-", "a">>
    /\ ret[1] = <<"a", "_", "a">>

\* C5: when a run of resize has succeeded, every later run on the same input
\* and output folder succeeds too: each directory creation finds the
\* directory there, no error is raised, and the same six (seven with the
\* playstore variant) files are there again.
C5_RerunSucceeds ==
    \A k \in 2..Len(history) :
        history[1].raised = "none" =>
            /\ history[k].raised = "none"
            /\ \A i \in 1..Len(history[k].makedirs_calls) :
                  history[k].makedirs_calls[i].outcome = "EEXIST"
            /\ Len(history[k].makedirs_calls) = IF call.with_playstore THEN 7 ELSE 6
            /\ history[k].files = history[1].files
            /\ Cardinality(history[k].files) = IF call.with_playstore THEN 7 ELSE 6

\* two successful runs with the playstore variant
C5_Witness ==
    /\ Len(history) = 2
    /\ call.with_playstore
    /\ history[1].raised = "none"
    /\ history[2].raised = "none"
    /\ Cardinality(history[2].files) = 7

PlaystoreFiles == {f \in files : f.dir = PLAYSTORE_FOLDER_PATH}

\* C6: the playstore directory and file are made if and only if
\* with_playstore is true; the file's longer side is 512 whatever the image
\* and desired_size_mdpi, and it is resized from the original image after
\* the six bucket files.
C6_PlaystoreIffRequested ==
    /\ ~call.with_playstore =>
          /\ PLAYSTORE_FOLDER_PATH \notin dirs
          /\ PlaystoreFiles = {}
          /\ \A i \in 1..Len(resample_calls) : resample_calls[i].kind # "playstore"
    /\ (call.with_playstore /\ pc = "done") =>
          (PLAYSTORE_FOLDER_PATH \in dirs /\ PlaystoreFiles # {})
    /\ \A f \in PlaystoreFiles :
          /\ Max(f.size[1], f.size[2]) = 512
          /\ \A b \in Buckets : \E g \in files : g.dir = DRAWABLE_FOLDER_PATH(b)
    /\ \A i \in 1..Len(resample_calls) :
          resample_calls[i].kind = "playstore" =>
              /\ i = 7
              /\ {resample_calls[j].kind : j \in 1..6} = Buckets
              /\ Len(save_calls) >= 6
              /\ resample_calls[i].source = input_file
              /\ resample_calls[i].target_size = 512

\* the playstore file of a 100x200 image is 256x512
C6_Witness ==
    /\ pc = "done"
    /\ call.with_playstore
    /\ \E f \in PlaystoreFiles : f.size = <<256, 512>>

\* the image could not be decoded
DecodeFailed == pc = "failed" /\ input_file = <<>>

\* C8 as stated: when decoding fails the error reaches the caller, no file
\* has been written, the playstore directory is not there, and the six
\* bucket directories are.
C8_SixDirectoriesLeft ==
    DecodeFailed =>
        /\ raised = "IOError"
        /\ files = {}
        /\ PLAYSTORE_FOLDER_PATH \notin dirs
        /\ \A b \in Buckets : DRAWABLE_FOLDER_PATH(b) \in dirs

\* C8: the six bucket directories are attempted before the image is
\* decoded; when decoding fails the error reaches the caller, no file has
\* been written, the playstore directory is not there, and every bucket
\* directory whose creation did not fail is (all six when nothing prevents
\* their creation).
C8_DirectoriesBeforeDecode ==
    /\ pc = "open" => (Len(makedirs_calls) = 6 /\ image_size = <<>>)
    /\ DecodeFailed =>
          /\ raised = "IOError"
          /\ files = {}
          /\ resample_calls = <<>>
          /\ PLAYSTORE_FOLDER_PATH \notin dirs
          /\ Len(makedirs_calls) = 6
          /\ \A i \in 1..6 :
                /\ makedirs_calls[i].path = DRAWABLE_FOLDER_PATH(RESOLUTION_TYPES[i])
                /\ makedirs_calls[i].outcome # "EACCES" => makedirs_calls[i].path \in dirs
          /\ blocked = {} => \A b \in Buckets : DRAWABLE_FOLDER_PATH(b) \in dirs

\* decoding failed in a folder where every directory could be created
C8_Witness ==
    /\ DecodeFailed
    /\ blocked = {}
    /\ history = <<>>
    /\ \A b \in Buckets : DRAWABLE_FOLDER_PATH(b) \in dirs

\* C9: no failure of a directory creation leaves create_directories or
\* create_playstore_directory: creation is attempted for every bucket, and
\* resize goes on to decode the image and to attempt the writes.
C9_CreationFailuresSwallowed ==
    /\ raised \in {"none", "IOError", "ValueError"}
    /\ pc # "start" =>
          /\ Len(makedirs_calls) >= 6
          /\ \A i \in 1..6 :
                makedirs_calls[i].path = DRAWABLE_FOLDER_PATH(RESOLUTION_TYPES[i])
    /\ (pc \notin {"start", "open"} /\ input_file # <<>>) =>
          /\ image_size = input_file
          /\ pc # "loop" =>
                /\ Len(resample_calls) >= 1
                /\ raised # "ValueError" => Len(save_calls) >= 1
    /\ \A i \in 1..Len(makedirs_calls) :
          (makedirs_calls[i].path = PLAYSTORE_FOLDER_PATH /\ raised # "ValueError") =>
              save_calls[Len(save_calls)] = PLAYSTORE_FOLDER_PATH

\* the mdpi directory could not be created: the four after it were, the
\* image was decoded and the write into the missing directory failed
C9_Witness ==
    /\ blocked = {DRAWABLE_FOLDER_PATH("mdpi")}
    /\ Len(makedirs_calls) = 6
    /\ makedirs_calls[2].outcome = "EACCES"
    /\ \A i \in 3..6 : makedirs_calls[i].outcome = "created"
    /\ image_size # <<>>
    /\ raised = "IOError"
    /\ DRAWABLE_FOLDER_PATH("mdpi") \in {save_calls[i] : i \in 1..Len(save_calls)}

\* C10: for an image with width >= 1 and height >= 1, every size resize
\* passes to the resampler has new_width >= 1 and new_height >= 1.
C10_SizesPositive ==
    \A i \in 1..Len(resample_calls) :
        resample_calls[i].size[1] >= 1 /\ resample_calls[i].size[2] >= 1

====
